---------------------------- MODULE Spec2Model ----------------------------
(***************************************************************************)
(* Model of the release download counter worker (src/src/index.ts): one    *)
(* HTTP handler in front of the edge response cache and two upstream       *)
(* release calls, plus the pure helpers it uses (colour resolution, TTL    *)
(* parsing, repository splitting, aggregation).                            *)
(*                                                                         *)
(* JavaScript strings are TLA+ strings; a JavaScript null or undefined     *)
(* string is the token Null, which is outside every modelled string        *)
(* domain.                                                                 *)
(***************************************************************************)
EXTENDS Integers, Sequences, FiniteSets, TLC

VARIABLES
    env,        \* the worker's bindings: DEFAULT_REPOSITORY, CACHE_TTL_SECONDS
    cache,      \* caches.default: a set of stored entries [key, response, storedAt]
    pending,    \* cache.put promises handed to ctx.waitUntil and not yet settled
    now,        \* the clock, in seconds
    pc,         \* "idle", or "fetching" while the two upstream calls are in flight
    cur,        \* the request being handled and the state of its upstream calls
    log,        \* the requests handled so far, each with its response and effects
    calls,      \* upstream calls issued so far, per endpoint
    putlog,     \* how each settled cache.put ended: "stored", "rejected", "abandoned"
    colorIn,    \* sanitizeColor's input
    colorOut,   \* sanitizeColor's result
    aggIn,      \* the two upstream payloads handed to the aggregation
    aggOut      \* the payload built from them: <<>> before, <<payload>> after

vars == <<env, cache, pending, now, pc, cur, log, calls, putlog,
          colorIn, colorOut, aggIn, aggOut>>

handlerVars == <<env, cache, pending, now, pc, cur, log, calls, putlog>>
colorVars == <<colorIn, colorOut>>
aggVars == <<aggIn, aggOut>>

Null == "<null>"
NotRun == "<not run>"

\* ------------------------------------------------------------- bounds

MaxRequests == 2
MaxTime == 1
MaxColorLen == 4
MaxReleases == 2
MaxAssets == 2

\* ------------------------------------------------------------ strings

Char(s, i) == SubSeq(s, i, i)

Chars(s) == {Char(s, i) : i \in 1..Len(s)}

UpperCase == "ABCDEFGHIJKLMNOPQRSTUVWXYZ"
LowerCase == "abcdefghijklmnopqrstuvwxyz"

LowerChar(c) ==
    IF \E i \in 1..Len(UpperCase) : Char(UpperCase, i) = c
    THEN Char(LowerCase, CHOOSE i \in 1..Len(UpperCase) : Char(UpperCase, i) = c)
    ELSE c

RECURSIVE toLowerCase(_)
toLowerCase(s) ==
    IF s = "" THEN "" ELSE LowerChar(Head(s)) \o toLowerCase(Tail(s))

WhiteSpace == {" ", "\t", "\n", "\r"}

RECURSIVE trimStart(_)
trimStart(s) ==
    IF s # "" /\ Head(s) \in WhiteSpace THEN trimStart(Tail(s)) ELSE s

RECURSIVE trimEnd(_)
trimEnd(s) ==
    IF s # "" /\ Char(s, Len(s)) \in WhiteSpace
    THEN trimEnd(SubSeq(s, 1, Len(s) - 1))
    ELSE s

trim(s) == trimEnd(trimStart(s))

\* `!value` for a string or null: null, undefined and "" are falsy.
Falsy(s) == s = Null \/ s = ""

\* ------------------------------------------------------ badge colours

BADGE_COLOR_MAP ==
    [brightgreen   |-> "#4c1",
     green         |-> "#97CA00",
     yellow        |-> "#dfb317",
     yellowgreen   |-> "#a4a61d",
     orange        |-> "#fe7d37",
     red           |-> "#e05d44",
     blue          |-> "#007ec6",
     lightgrey     |-> "#9f9f9f",
     success       |-> "#4c1",
     important     |-> "#fe7d37",
     critical      |-> "#e05d44",
     informational |-> "#007ec6",
     inactive      |-> "#9f9f9f"]

BADGE_DEFAULT_COLOR == "#0d9488"

\* BADGE_COLOR_MAP is an object literal, so its prototype is Object.prototype:
\* the properties it inherits, each with what `${value}` renders for it in the
\* badge template (a function's source text, "[object Object]" for an object).
ObjectPrototype ==
    [constructor          |-> "function Object() { [native code] }",
     hasOwnProperty       |-> "function hasOwnProperty() { [native code] }",
     isPrototypeOf        |-> "function isPrototypeOf() { [native code] }",
     propertyIsEnumerable |-> "function propertyIsEnumerable() { [native code] }",
     toLocaleString       |-> "function toLocaleString() { [native code] }",
     toString             |-> "function toString() { [native code] }",
     valueOf              |-> "function valueOf() { [native code] }",
     __proto__            |-> "[object Object]"]

\* `key in BADGE_COLOR_MAP`: own and inherited properties alike.
InColorMap(key) ==
    key \in DOMAIN BADGE_COLOR_MAP \/ key \in DOMAIN ObjectPrototype

\* BADGE_COLOR_MAP[key], for a key that is `in` it.
ColorMapGet(key) ==
    IF key \in DOMAIN BADGE_COLOR_MAP
    THEN BADGE_COLOR_MAP[key]
    ELSE ObjectPrototype[key]

HexDigits == Chars("0123456789abcdefABCDEF")

\* /^#[0-9a-fA-F]{n}$/.test(s)
HexTest(s, n) ==
    /\ Len(s) = n + 1
    /\ Head(s) = "#"
    /\ \A i \in 2..Len(s) : Char(s, i) \in HexDigits

sanitizeColor(input) ==
    IF Falsy(input) THEN BADGE_DEFAULT_COLOR
    ELSE LET color == trim(input)
             lower == toLowerCase(color)
         IN  IF HexTest(color, 6) \/ HexTest(color, 3) THEN color
             ELSE IF InColorMap(lower) THEN ColorMapGet(lower)
             ELSE BADGE_DEFAULT_COLOR

\* The `color` inputs: every string over a small alphabet up to MaxColorLen
\* characters, and some longer ones.
ColorAlphabet == {"#", "r", "e", "D", " "}

RECURSIVE StringsOfLen(_, _)
StringsOfLen(alphabet, n) ==
    IF n = 0 THEN {""}
    ELSE {s \o c : s \in StringsOfLen(alphabet, n - 1), c \in alphabet}

ColorSamples ==
    {Null, "green", "GREEN", " Green ", "brightgreen", "informational",
     "#97CA00", "#97ca0g", "#12345", "#1234567", "97CA00", "not-a-color",
     "constructor", "Constructor", "__proto__", "tostring", "toString",
     "valueof"}

ColorInputs ==
    ColorSamples
        \cup UNION {StringsOfLen(ColorAlphabet, n) : n \in 0..MaxColorLen}

ColorInit ==
    /\ colorIn \in ColorInputs
    /\ colorOut = NotRun

ResolveColor ==
    /\ colorOut = NotRun
    /\ colorOut' = sanitizeColor(colorIn)
    /\ UNCHANGED colorIn

\* -------------------------------------------------------- aggregation

PerPage == 100

\* assets.reduce((acc, asset) => acc + asset.download_count, 0): acc[i] is the
\* accumulator after the first i assets.
reduceAssets(assets) ==
    LET acc[i \in 0..Len(assets)] ==
            IF i = 0 THEN 0 ELSE acc[i - 1] + assets[i].download_count
    IN  acc[Len(assets)]

\* allReleases.reduce((acc, release) => acc + <the release's asset total>, 0):
\* fold[lo, hi, acc] is the accumulator after releases lo..hi, taken in order
\* from acc. The range is passed on in two halves, the second starting from the
\* result of the first, which keeps the evaluation of a full page shallow.
reduceReleases(releases) ==
    LET fold[lo \in Nat, hi \in Nat, acc \in Int] ==
            IF lo > hi THEN acc
            ELSE IF lo = hi THEN acc + reduceAssets(releases[lo].assets)
            ELSE fold[((lo + hi) \div 2) + 1, hi, fold[lo, (lo + hi) \div 2, acc]]
    IN  fold[1, Len(releases), 0]

TotalOfFirstRelease(latestRelease, allReleases) ==
    IF allReleases = <<>> THEN 0 ELSE reduceAssets(allReleases[1].assets)

totalDownloads(latestRelease, allReleases) == reduceReleases(allReleases)

latestReleaseDownloads(latestRelease, allReleases) ==
    reduceAssets(latestRelease.assets)

\* The browser_download_url and html_url fields are copied through untouched and
\* are left out.
responsePayload(repository, latestRelease, allReleases, time) ==
    [repository       |-> repository,
     latest_release   |->
         [tag            |-> latestRelease.tag_name,
          download_count |-> latestReleaseDownloads(latestRelease, allReleases),
          assets         |-> [i \in 1..Len(latestRelease.assets) |->
                                 [name           |-> latestRelease.assets[i].name,
                                  download_count |-> latestRelease.assets[i].download_count]]],
     total_downloads  |-> totalDownloads(latestRelease, allReleases),
     releases_counted |-> Len(allReleases),
     fetched_at       |-> time]

\* The upstream payloads: releases with up to MaxAssets assets each, pages of up
\* to MaxReleases releases, and full pages of PerPage releases and one more.
DownloadCounts == {0, 3}

RECURSIVE SeqsOfLen(_, _)
SeqsOfLen(S, n) ==
    IF n = 0 THEN {<<>>}
    ELSE {Append(s, x) : s \in SeqsOfLen(S, n - 1), x \in S}

SeqsUpTo(S, n) == UNION {SeqsOfLen(S, k) : k \in 0..n}

AssetsOf(counts) ==
    [i \in 1..Len(counts) |-> [name |-> i, download_count |-> counts[i]]]

ReleaseOf(tag, counts) == [tag_name |-> tag, assets |-> AssetsOf(counts)]

AssetLists == SeqsUpTo(DownloadCounts, MaxAssets)

TaggedPage(lists) == [i \in 1..Len(lists) |-> ReleaseOf(i, lists[i])]

SmallPages == {TaggedPage(lists) : lists \in SeqsUpTo(AssetLists, MaxReleases)}

LargePages ==
    {[i \in 1..n |-> ReleaseOf(i, <<3, 0>>)] : n \in {PerPage, PerPage + 1}}

ReleasePages == SmallPages \cup LargePages

LatestReleases == {ReleaseOf(0, counts) : counts \in AssetLists}

AggInit ==
    /\ aggIn \in [latest : LatestReleases, all : ReleasePages]
    /\ aggOut = <<>>

Aggregate ==
    /\ aggOut = <<>>
    /\ aggOut' = <<responsePayload("o/r", aggIn.latest, aggIn.all, 0)>>
    /\ UNCHANGED aggIn

\* ---------------------------------------------------------- responses

CORS_HEADERS ==
    ("Access-Control-Allow-Origin" :> "*")
        @@ ("Access-Control-Allow-Methods" :> "GET, OPTIONS")
        @@ ("Access-Control-Allow-Headers" :> "Content-Type, Authorization")
        @@ ("Access-Control-Max-Age" :> "86400")

\* { ...a, ...b } and Headers.set: b's entries win.
Spread(a, b) ==
    [k \in DOMAIN a \cup DOMAIN b |-> IF k \in DOMAIN b THEN b[k] ELSE a[k]]

\* `public, s-maxage=${n}` and `public, s-maxage=${n}, max-age=${n}`, as the
\* list of their directives.
SharedCacheControl(n) == <<"public", "s-maxage", n>>
SharedAndPrivateCacheControl(n) == <<"public", "s-maxage", n, "max-age", n>>

DefaultMaxAge == 300

\* new Response(null, { headers: CORS_HEADERS })
preflightResponse ==
    [status |-> 200, headers |-> CORS_HEADERS, body |-> [kind |-> "empty"]]

JsonWithoutCors(payload, status, maxAgeSeconds) ==
    [status  |-> status,
     headers |-> ("Content-Type" :> "application/json; charset=UTF-8")
                     @@ ("Cache-Control" :> SharedCacheControl(maxAgeSeconds)),
     body    |-> [kind |-> "json", payload |-> payload]]

json(payload, status, maxAgeSeconds) ==
    [status  |-> status,
     headers |-> Spread(("Content-Type" :> "application/json; charset=UTF-8")
                            @@ ("Cache-Control" :> SharedCacheControl(maxAgeSeconds)),
                        CORS_HEADERS),
     body    |-> [kind |-> "json", payload |-> payload]]

withCors(response) ==
    [status  |-> response.status,
     headers |-> Spread(response.headers, CORS_HEADERS),
     body    |-> response.body]

badgeResponse(svg, maxAgeSeconds) ==
    [status  |-> 200,
     headers |-> ("Content-Type" :> "image/svg+xml; charset=UTF-8")
                     @@ ("Cache-Control" :> SharedAndPrivateCacheControl(maxAgeSeconds))
                     @@ ("Vary" :> "Accept, Accept-Encoding"),
     body    |-> svg]

\* ------------------------------------------------------- badge inputs

shouldReturnBadge(url) ==
    \/ (Len(url.path) >= 1 /\ url.path[1] = "badge")
    \/ (~Falsy(url.format) /\ toLowerCase(url.format) = "svg")
    \/ url.badge = "1"

getBadgeMetric(url) ==
    LET routeMetric ==
            IF Len(url.path) >= 1 /\ url.path[1] = "badge" /\ Len(url.path) >= 2
            THEN url.path[2] ELSE Null
        raw == IF routeMetric # Null THEN toLowerCase(routeMetric)
               ELSE IF url.metric # Null THEN toLowerCase(url.metric)
               ELSE "total"
    IN  IF raw = "latest" THEN "latest" ELSE "total"

defaultBadgeLabel(metric) ==
    IF metric = "latest" THEN "latest downloads" ELSE "total downloads"

MaxLabelLen == 50

\* Null stands for the `undefined` the code returns.
sanitizeLabel(input) ==
    IF Falsy(input) THEN Null
    ELSE LET trimmed == trim(input)
         IN  IF trimmed = "" THEN Null
             ELSE SubSeq(trimmed, 1, IF Len(trimmed) < MaxLabelLen
                                     THEN Len(trimmed) ELSE MaxLabelLen)

CompactFrom == 1000

\* Intl.NumberFormat's rendering is left uninterpreted: the value and the
\* notation chosen for it.
formatCount(value) ==
    [notation |-> IF value >= CompactFrom THEN "compact" ELSE "standard",
     value    |-> value]

\* The SVG document, as the three values the template embeds.
renderBadge(label, value, color) ==
    [kind |-> "svg", label |-> label, value |-> value, color |-> color]

\* ------------------------------------------------------ configuration

Digits == "0123456789"

DigitValue(c) == (CHOOSE i \in 1..Len(Digits) : Char(Digits, i) = c) - 1

IsDigits(s) == s # "" /\ \A i \in 1..Len(s) : Char(s, i) \in Chars(Digits)

RECURSIVE DecimalValue(_, _)
DecimalValue(s, acc) ==
    IF s = "" THEN acc ELSE DecimalValue(Tail(s), 10 * acc + DigitValue(Head(s)))

\* Number(value), for the strings modelled here: signed decimal integers with
\* surrounding white space, and NaN for text that holds no digit at all.
NumberOf(value) ==
    LET s == trim(value)
    IN  IF IsDigits(s) THEN [finite |-> TRUE, value |-> DecimalValue(s, 0)]
        ELSE IF Len(s) >= 2 /\ Head(s) = "-" /\ IsDigits(Tail(s))
             THEN [finite |-> TRUE, value |-> 0 - DecimalValue(Tail(s), 0)]
        ELSE [finite |-> FALSE, value |-> 0]

parseTtl(value, fallback) ==
    IF Falsy(value) THEN fallback
    ELSE LET parsed == NumberOf(value)
         IN  IF parsed.finite /\ parsed.value > 0 THEN parsed.value ELSE fallback

\* repository.split('/')
RECURSIVE SplitSlash(_, _)
SplitSlash(s, part) ==
    IF s = "" THEN <<part>>
    ELSE IF Head(s) = "/" THEN <<part>> \o SplitSlash(Tail(s), "")
    ELSE SplitSlash(Tail(s), part \o Head(s))

\* .filter(Boolean)
FilterNonEmpty(parts) == SelectSeq(parts, LAMBDA x : x # "")

\* The Error thrown is [thrown |-> TRUE].
splitRepository(repository) ==
    LET parts == FilterNonEmpty(SplitSlash(repository, ""))
    IN  IF Len(parts) # 2
        THEN [thrown |-> TRUE, owner |-> "", repo |-> ""]
        ELSE [thrown |-> FALSE, owner |-> parts[1], repo |-> parts[2]]

ResolveIgnoringEmptiness(url, environment) ==
    IF url.owner # Null /\ url.repo # Null
    THEN url.owner \o "/" \o url.repo
    ELSE environment.DEFAULT_REPOSITORY

\* Lines 66 to 72: the repository string, Null when there is none.
resolveRepository(url, environment) ==
    LET repository ==
            IF ~Falsy(url.owner) /\ ~Falsy(url.repo)
            THEN url.owner \o "/" \o url.repo
            ELSE Null
    IN  IF Falsy(repository) THEN environment.DEFAULT_REPOSITORY ELSE repository

\* ------------------------------------------------ requests and inputs

Url(path, owner, repo, format, color) ==
    [path |-> path, owner |-> owner, repo |-> repo, format |-> format,
     badge |-> Null, metric |-> Null, label |-> Null, color |-> color]

Req(method, url) == [method |-> method, url |-> url]

Requests ==
    {Req("OPTIONS", Url(<<>>, Null, Null, Null, Null)),
     Req("POST", Url(<<>>, "o", "r", Null, Null)),
     Req("GET", Url(<<>>, "", "r", Null, Null)),
     Req("GET", Url(<<>>, "o", "r", Null, Null)),
     Req("GET", Url(<<>>, "a/b", "c", Null, Null)),
     Req("GET", Url(<<"badge">>, "o", "r", Null, "red")),
     Req("GET", Url(<<"stats">>, "o/", "r", Null, Null)),
     Req("GET", [Url(<<"stats">>, Null, Null, "SVG", Null)
                    EXCEPT !.metric = "Latest", !.label = " dl "])}

Envs ==
    {[DEFAULT_REPOSITORY |-> Null, CACHE_TTL_SECONDS |-> Null],
     [DEFAULT_REPOSITORY |-> "", CACHE_TTL_SECONDS |-> "-1"],
     [DEFAULT_REPOSITORY |-> "o/r", CACHE_TTL_SECONDS |-> "1"],
     [DEFAULT_REPOSITORY |-> "or", CACHE_TTL_SECONDS |-> " 1 "]}

\* What the upstream answers to a call: a payload, a non-success response, or
\* no response at all (fetch rejects).
Ok(data) == [kind |-> "ok", data |-> data]
Http(status, detail) == [kind |-> "http", status |-> status, detail |-> detail]
NetworkFailure == [kind |-> "network"]
NotIssued == [kind |-> "none"]

\* Status 0 is the value the handler's `|| 502` fallback is there for.
LatestOutcomes ==
    {Ok(ReleaseOf(2, <<3, 3>>)), Http(404, "Not Found"), Http(0, ""),
     NetworkFailure}

ListOutcomes ==
    {Ok(TaggedPage(<<<<3>>, <<3, 3>>>>)), Http(403, "rate limit exceeded"),
     Http(0, ""), NetworkFailure}

\* The smaller input sets of the specification of several requests in a row.
TrafficRequests == {r \in Requests : r.url.path # <<"stats">>}

TrafficEnvs == {e \in Envs : e.DEFAULT_REPOSITORY \in {"", "o/r"}}

\* The GET requests that differ in the repository string they resolve to, and
\* the environments whose default repository is not empty.
RepositoryRequests ==
    {r \in Requests : r.method = "GET" /\ r.url.owner \in {"", "a/b", "o/"}}

RepositoryEnvs == {e \in Envs : e.DEFAULT_REPOSITORY \in {"o/r", "or"}}

TrafficLatestOutcomes == {Ok(ReleaseOf(2, <<3, 3>>)), Http(404, "Not Found")}

TrafficListOutcomes == {Ok(TaggedPage(<<<<3>>, <<3, 3>>>>)), NetworkFailure}

NoUpstream == [latest |-> NotIssued, list |-> NotIssued, failed |-> "none"]

Idle == [active |-> FALSE]

\* ------------------------------------------------------------- errors

\* A GitHubError is [github |-> TRUE, status, detail]; every other error is
\* [github |-> FALSE].
GitHubError(status, detail) ==
    [github |-> TRUE,
     message |-> <<"GitHub API responded with status", status>>,
     status |-> status, detail |-> detail]

OtherError == [github |-> FALSE]

HandleErrorUnclassified(error) ==
    json([error |-> "Internal Server Error"], 500, 0)

HandleErrorAsClientError(error) ==
    IF error.github
    THEN json([error |-> error.message, status |-> error.status,
               detail |-> error.detail],
              IF error.status # 0 THEN error.status ELSE 502,
              DefaultMaxAge)
    ELSE json([error |-> "Invalid repository format. Use owner/repo."], 400,
              DefaultMaxAge)

handleError(error) ==
    IF error.github
    THEN json([error |-> error.message, status |-> error.status,
               detail |-> error.detail],
              IF error.status # 0 THEN error.status ELSE 502,
              DefaultMaxAge)
    ELSE json([error |-> "Internal Server Error"], 500, 0)

\* fetchGitHub's result for what the upstream answered.
fetchGitHub(outcome) ==
    CASE outcome.kind = "ok" -> [rejected |-> FALSE, value |-> outcome.data]
      [] outcome.kind = "http" ->
            [rejected |-> TRUE, error |-> GitHubError(outcome.status, outcome.detail)]
      [] OTHER -> [rejected |-> TRUE, error |-> OtherError]

\* ---------------------------------------------------------- the cache

\* The lifetime the platform's cache gives a stored response: its s-maxage.
SharedMaxAge(response) == response.headers["Cache-Control"][3]

Fresh(entry, time) == time < entry.storedAt + SharedMaxAge(entry.response)

AlwaysMiss(key) == {}

\* cache.match(cacheKey): the stored responses it can return (none or one).
cacheMatch(key) == {e \in cache : e.key = key /\ Fresh(e, now)}

\* ctx.waitUntil(cache.put(cacheKey, response.clone()))
waitUntilPut(key, response, by) ==
    {[key |-> key, response |-> response, by |-> by]}

\* ------------------------------------------------------- the handler

\* Lines 99 to 139: the response built from the two upstream payloads.
successResponse(current, time) ==
    LET url == current.request.url
        latestRelease == current.latest.data
        allReleases == current.list.data
        payload == responsePayload(current.owner \o "/" \o current.repo,
                                   latestRelease, allReleases, time)
        maxAgeSeconds == parseTtl(env.CACHE_TTL_SECONDS, DefaultMaxAge)
    IN  IF shouldReturnBadge(url)
        THEN LET metric == getBadgeMetric(url)
                 sanitized == sanitizeLabel(url.label)
                 label == IF sanitized # Null THEN sanitized
                          ELSE defaultBadgeLabel(metric)
                 color == sanitizeColor(url.color)
                 displayValue ==
                     IF metric = "latest"
                     THEN formatCount(payload.latest_release.download_count)
                     ELSE formatCount(payload.total_downloads)
             IN  badgeResponse(renderBadge(label, displayValue, color), maxAgeSeconds)
        ELSE json(payload, 200, maxAgeSeconds)

\* The record of a handled request: what came in, what went out, and what the
\* handler did on the way. freshBy is the request whose cache entry was stored
\* and fresh under this request's key when it arrived (0: none).
Handled(request, response, hit, cacheRead, up, put, at, freshBy, callsAfter) ==
    [request |-> request, response |-> response, hit |-> hit,
     cacheRead |-> cacheRead, up |-> up, put |-> put, at |-> at,
     freshBy |-> freshBy, callsAfter |-> callsAfter]

FreshBy(key) ==
    IF \E e \in cache : e.key = key /\ Fresh(e, now)
    THEN (CHOOSE e \in cache : e.key = key /\ Fresh(e, now)).by
    ELSE 0

\* A request arrives and is handled up to its response or, on a cache miss with
\* a well-formed repository, up to the two upstream calls being issued; latest
\* and list are what the upstream will answer to them.
Receive(request, latest, list) ==
    /\ pc = "idle"
    /\ Len(log) < MaxRequests
    /\ LET url == request.url
           repository == resolveRepository(url, env)
           hits == cacheMatch(url)
           answer(response, hit, cacheRead) ==
               /\ log' = Append(log, Handled(request, response, hit, cacheRead,
                                             NoUpstream, FALSE, now,
                                             FreshBy(url), calls))
               /\ UNCHANGED <<pc, cur, calls>>
       IN  IF request.method = "OPTIONS"
           THEN answer(preflightResponse, FALSE, FALSE)
           ELSE IF request.method # "GET"
           THEN answer(json([error |-> "Method not allowed"], 405, DefaultMaxAge),
                       FALSE, FALSE)
           ELSE IF Falsy(repository)
           THEN answer(json([error |-> "Missing repository. Provide owner and repo query params or set DEFAULT_REPOSITORY."],
                            400, DefaultMaxAge),
                       FALSE, FALSE)
           ELSE IF hits # {}
           THEN LET cached == (CHOOSE e \in hits : TRUE).response
                IN  answer(IF shouldReturnBadge(url) THEN cached ELSE withCors(cached),
                           TRUE, TRUE)
           ELSE IF splitRepository(repository).thrown
           THEN answer(handleError(OtherError), FALSE, TRUE)
           ELSE /\ pc' = "fetching"
                /\ cur' = [active |-> TRUE, request |-> request,
                           owner |-> splitRepository(repository).owner,
                           repo |-> splitRepository(repository).repo,
                           at |-> now, freshBy |-> FreshBy(url),
                           latest |-> latest, list |-> list,
                           settled |-> {}]
                /\ calls' = [latest |-> calls.latest + 1, list |-> calls.list + 1]
                /\ log' = log
    /\ UNCHANGED <<env, cache, pending, now, putlog>>

SettleCachingErrors(which) ==
    /\ pc = "fetching"
    /\ which \notin cur.settled
    /\ LET result == fetchGitHub(cur[which])
           up(failed) == [latest |-> cur.latest, list |-> cur.list, failed |-> failed]
           done(response, puts, failed) ==
               /\ log' = Append(log, Handled(cur.request, response, FALSE, TRUE,
                                             up(failed),
                                             puts # {}, cur.at, cur.freshBy, calls))
               /\ pending' = pending \cup puts
               /\ pc' = "idle"
               /\ cur' = Idle
       IN  IF result.rejected
           THEN done(handleError(result.error),
                     waitUntilPut(cur.request.url, handleError(result.error),
                                  Len(log) + 1),
                     which)
           ELSE IF cur.settled # {}
           THEN done(successResponse(cur, now),
                     waitUntilPut(cur.request.url, successResponse(cur, now),
                                  Len(log) + 1),
                     "none")
           ELSE /\ cur' = [cur EXCEPT !.settled = {which}]
                /\ UNCHANGED <<pc, log, pending>>
    /\ UNCHANGED <<env, cache, now, calls, putlog>>

\* One of the two upstream calls settles. Promise.all rejects with the first
\* rejection and fulfils once both calls have.
Settle(which) ==
    /\ pc = "fetching"
    /\ which \notin cur.settled
    /\ LET result == fetchGitHub(cur[which])
           up(failed) == [latest |-> cur.latest, list |-> cur.list, failed |-> failed]
           done(response, puts, failed) ==
               /\ log' = Append(log, Handled(cur.request, response, FALSE, TRUE,
                                             up(failed),
                                             puts # {}, cur.at, cur.freshBy, calls))
               /\ pending' = pending \cup puts
               /\ pc' = "idle"
               /\ cur' = Idle
       IN  IF result.rejected
           THEN done(handleError(result.error), {}, which)
           ELSE IF cur.settled # {}
           THEN done(successResponse(cur, now),
                     waitUntilPut(cur.request.url, successResponse(cur, now),
                                  Len(log) + 1),
                     "none")
           ELSE /\ cur' = [cur EXCEPT !.settled = {which}]
                /\ UNCHANGED <<pc, log, pending>>
    /\ UNCHANGED <<env, cache, now, calls, putlog>>

SettleLatest == Settle("latest")

SettleList == Settle("list")

\* ------------------------------------------- the detached cache writes

Settled(put, outcome) == [by |-> put.by, outcome |-> outcome]

\* A cache.put fulfils: the response is stored under its key.
PutFulfilled ==
    /\ \E put \in pending :
        /\ cache' = {e \in cache : e.key # put.key}
                        \cup {[key |-> put.key, response |-> put.response,
                               storedAt |-> now, by |-> put.by]}
        /\ pending' = pending \ {put}
        /\ putlog' = putlog \cup {Settled(put, "stored")}
    /\ UNCHANGED <<env, now, pc, cur, log, calls>>

RejectionSurfaces ==
    /\ \E put \in pending :
        /\ pending' = pending \ {put}
        /\ putlog' = putlog \cup {Settled(put, "rejected")}
        /\ log' = [log EXCEPT ![put.by].response = handleError(OtherError)]
    /\ UNCHANGED <<env, cache, now, pc, cur, calls>>

\* A cache.put rejects: the rejection goes to waitUntil and nowhere else.
PutRejected ==
    /\ \E put \in pending :
        /\ pending' = pending \ {put}
        /\ putlog' = putlog \cup {Settled(put, "rejected")}
    /\ UNCHANGED <<env, cache, now, pc, cur, log, calls>>

\* The platform gives up on a waitUntil task before its cache.put settles.
PutAbandoned ==
    /\ \E put \in pending :
        /\ pending' = pending \ {put}
        /\ putlog' = putlog \cup {Settled(put, "abandoned")}
    /\ UNCHANGED <<env, cache, now, pc, cur, log, calls>>

Tick ==
    /\ now < MaxTime
    /\ now' = now + 1
    /\ UNCHANGED <<env, cache, pending, pc, cur, log, calls, putlog>>

\* ----------------------------------------------------- specifications

HandlerInit ==
    /\ env \in Envs
    /\ cache = {}
    /\ pending = {}
    /\ now = 0
    /\ pc = "idle"
    /\ cur = Idle
    /\ log = <<>>
    /\ calls = [latest |-> 0, list |-> 0]
    /\ putlog = {}

HandlerIdle ==
    /\ env = [DEFAULT_REPOSITORY |-> Null, CACHE_TTL_SECONDS |-> Null]
    /\ cache = {}
    /\ pending = {}
    /\ now = 0
    /\ pc = "idle"
    /\ cur = Idle
    /\ log = <<>>
    /\ calls = [latest |-> 0, list |-> 0]
    /\ putlog = {}

ColorIdle ==
    /\ colorIn = Null
    /\ colorOut = NotRun

AggIdle ==
    /\ aggIn = [latest |-> ReleaseOf(0, <<>>), all |-> <<>>]
    /\ aggOut = <<>>

Init == HandlerInit /\ ColorIdle /\ AggIdle

\* Up to MaxRequests requests, one after the other.
InitTraffic == Init /\ env \in TrafficEnvs

Next ==
    \/ /\ \E request \in TrafficRequests, latest \in TrafficLatestOutcomes,
              list \in TrafficListOutcomes :
              Receive(request, latest, list)
       /\ UNCHANGED <<colorVars, aggVars>>
    \/ SettleLatest /\ UNCHANGED <<colorVars, aggVars>>
    \/ SettleList /\ UNCHANGED <<colorVars, aggVars>>
    \/ PutFulfilled /\ UNCHANGED <<colorVars, aggVars>>
    \/ PutRejected /\ UNCHANGED <<colorVars, aggVars>>
    \/ PutAbandoned /\ UNCHANGED <<colorVars, aggVars>>
    \/ Tick /\ UNCHANGED <<colorVars, aggVars>>

Spec == InitTraffic /\ [][Next]_vars

\* One request, over every request and every pair of upstream answers.
NextRequest ==
    \/ /\ log = <<>>
       /\ \E request \in Requests, latest \in LatestOutcomes,
              list \in ListOutcomes :
              Receive(request, latest, list)
       /\ UNCHANGED <<colorVars, aggVars>>
    \/ SettleLatest /\ UNCHANGED <<colorVars, aggVars>>
    \/ SettleList /\ UNCHANGED <<colorVars, aggVars>>
    \/ PutFulfilled /\ UNCHANGED <<colorVars, aggVars>>
    \/ PutRejected /\ UNCHANGED <<colorVars, aggVars>>
    \/ PutAbandoned /\ UNCHANGED <<colorVars, aggVars>>
    \/ Tick /\ UNCHANGED <<colorVars, aggVars>>

SpecRequest == Init /\ [][NextRequest]_vars

\* Up to MaxRequests requests in a row whose repository strings are well-formed
\* or malformed, from the query or from the default.
InitRepository == Init /\ env \in RepositoryEnvs

NextRepository ==
    \/ /\ \E request \in RepositoryRequests, latest \in TrafficLatestOutcomes,
              list \in TrafficListOutcomes :
              Receive(request, latest, list)
       /\ UNCHANGED <<colorVars, aggVars>>
    \/ SettleLatest /\ UNCHANGED <<colorVars, aggVars>>
    \/ SettleList /\ UNCHANGED <<colorVars, aggVars>>
    \/ PutFulfilled /\ UNCHANGED <<colorVars, aggVars>>
    \/ PutRejected /\ UNCHANGED <<colorVars, aggVars>>
    \/ PutAbandoned /\ UNCHANGED <<colorVars, aggVars>>
    \/ Tick /\ UNCHANGED <<colorVars, aggVars>>

SpecRepository == InitRepository /\ [][NextRepository]_vars

\* sanitizeColor on every colour input.
InitColor == HandlerIdle /\ ColorInit /\ AggIdle

NextColor == ResolveColor /\ UNCHANGED <<handlerVars, aggVars>>

SpecColor == InitColor /\ [][NextColor]_vars

\* The aggregation on every pair of upstream payloads.
InitAgg == HandlerIdle /\ ColorIdle /\ AggInit

NextAgg == Aggregate /\ UNCHANGED <<handlerVars, colorVars>>

SpecAgg == InitAgg /\ [][NextAgg]_vars

\* ------------------------------------------------------------- claims

Ttl == parseTtl(env.CACHE_TTL_SECONDS, DefaultMaxAge)

\* The upstream calls issued while request i was handled.
CallsDuring(i) ==
    IF i = 1 THEN log[1].callsAfter
    ELSE [latest |-> log[i].callsAfter.latest - log[i - 1].callsAfter.latest,
          list   |-> log[i].callsAfter.list - log[i - 1].callsAfter.list]

NoCalls == [latest |-> 0, list |-> 0]
OneCallEach == [latest |-> 1, list |-> 1]

\* Request i missed the cache and built a success response.
MissThatSucceeded(i) ==
    /\ log[i].request.method = "GET"
    /\ ~log[i].hit
    /\ log[i].up.latest.kind = "ok"
    /\ log[i].up.list.kind = "ok"
    /\ log[i].response.status = 200

\* C1, as stated: of two sequential identical GET requests, the first a cache
\* miss that builds a success response and the second arriving within the TTL
\* window, the second returns the first's body and issues no upstream call.
C1_RepeatWithinTtl ==
    \A i \in 1..(Len(log) - 1) :
        (/\ log[i + 1].request = log[i].request
         /\ MissThatSucceeded(i)
         /\ log[i + 1].at < log[i].at + Ttl)
            => (/\ log[i + 1].response.body = log[i].response.body
                /\ CallsDuring(i) = OneCallEach
                /\ CallsDuring(i + 1) = NoCalls)

\* C1, amended: the same, provided the first request's cache write has been
\* stored and its entry is the cached one and fresh when the second arrives.
C1_RepeatServedFromCache ==
    \A i \in 1..(Len(log) - 1) :
        (/\ log[i + 1].request = log[i].request
         /\ MissThatSucceeded(i)
         /\ log[i + 1].freshBy = i)
            => (/\ log[i + 1].hit
                /\ log[i + 1].response.status = 200
                /\ log[i + 1].response.body = log[i].response.body
                /\ CallsDuring(i) = OneCallEach
                /\ CallsDuring(i + 1) = NoCalls
                /\ ~log[i + 1].put)

C1_Witness ==
    /\ Len(log) = 2
    /\ log[2].request = log[1].request
    /\ MissThatSucceeded(1)
    /\ log[2].freshBy = 1
    /\ log[2].hit
    /\ log[2].response.body.kind = "json"

IsSuccessBody(body) ==
    \/ body.kind = "svg"
    \/ body.kind = "json" /\ "total_downloads" \in DOMAIN body.payload

\* C2: every cached response (and every response on its way to the cache) is a
\* status-200 success built from two successful upstream results; a request
\* that ends in a failure schedules no cache write; no upstream call is made
\* twice for one request.
C2_OnlySuccessesCached ==
    /\ \A e \in cache \cup pending :
        /\ e.response.status = 200
        /\ IsSuccessBody(e.response.body)
        /\ e.by \in 1..Len(log)
        /\ log[e.by].up.latest.kind = "ok"
        /\ log[e.by].up.list.kind = "ok"
    /\ \A i \in 1..Len(log) :
        /\ (log[i].response.status # 200 \/ ~IsSuccessBody(log[i].response.body))
               => ~log[i].put
        /\ CallsDuring(i).latest <= 1
        /\ CallsDuring(i).list <= 1

C2_Witness ==
    /\ \E e \in cache : e.response.body.kind = "json"
    /\ \E i \in 1..Len(log) :
        /\ log[i].up.failed = "latest"
        /\ log[i].response.status = 404
        /\ ~log[i].put

IsErrorResponse(response) == response.status >= 400

\* C3: every error response (405, 400, upstream error, 500) has the
\* Cache-Control `public, s-maxage=0`.
C3_ErrorsNotCacheable ==
    \A i \in 1..Len(log) :
        IsErrorResponse(log[i].response)
            => log[i].response.headers["Cache-Control"] = SharedCacheControl(0)

HasCors(response) ==
    /\ DOMAIN CORS_HEADERS \subseteq DOMAIN response.headers
    /\ response.headers["Access-Control-Allow-Origin"] = "*"
    /\ response.headers["Access-Control-Allow-Methods"] = "GET, OPTIONS"
    /\ response.headers["Access-Control-Allow-Headers"] = "Content-Type, Authorization"
    /\ response.headers["Access-Control-Max-Age"] = "86400"

\* C4, as stated: every response, on every path, carries the four CORS headers.
C4_CorsOnEveryResponse ==
    \A i \in 1..Len(log) : HasCors(log[i].response)

\* C4, amended: every response other than a badge (fresh or served from the
\* cache) carries the four CORS headers.
C4_CorsExceptOnBadges ==
    \A i \in 1..Len(log) :
        log[i].response.body.kind # "svg" => HasCors(log[i].response)

C4_Witness ==
    /\ Len(log) = 2
    /\ MissThatSucceeded(1)
    /\ log[1].response.body.kind = "json"
    /\ HasCors(log[1].response)
    /\ log[2].hit
    /\ log[2].response.body.kind = "json"
    /\ HasCors(log[2].response)

\* The outcome of the call whose rejection ended request i.
FirstFailure(i) == log[i].up[log[i].up.failed]

OrFallback(status) == IF status # 0 THEN status ELSE 502

\* C5, as stated: when either upstream call returns a non-success status, then
\* whatever the other call does the response is an error with the upstream
\* status of the first call to fail (502 if absent or zero) and a body holding
\* error, status and detail; no success response is produced.
C5_FirstFailureStatus ==
    \A i \in 1..Len(log) :
        (log[i].up.latest.kind = "http" \/ log[i].up.list.kind = "http")
            => /\ log[i].up.failed # "none"
               /\ log[i].response.status =
                      OrFallback(IF FirstFailure(i).kind = "http"
                                 THEN FirstFailure(i).status ELSE 0)
               /\ {"error", "status", "detail"} \subseteq DOMAIN log[i].response.body.payload
               /\ ~log[i].put

\* C5, amended: when either upstream call fails, no success response is
\* produced and nothing is cached; if the first call to fail returned a
\* non-success status s, the response has status s (502 if s is zero) and a
\* body holding error, status s and the detail; if the first call to fail got no
\* HTTP response, the response is the unclassified 500.
C5_FirstFailureDecides ==
    \A i \in 1..Len(log) :
        (log[i].up.latest.kind \in {"http", "network"}
            \/ log[i].up.list.kind \in {"http", "network"})
            => /\ log[i].up.failed # "none"
               /\ ~log[i].put
               /\ ~IsSuccessBody(log[i].response.body)
               /\ FirstFailure(i).kind = "http"
                      => /\ log[i].response.status = OrFallback(FirstFailure(i).status)
                         /\ DOMAIN log[i].response.body.payload
                                = {"error", "status", "detail"}
                         /\ log[i].response.body.payload.status = FirstFailure(i).status
                         /\ log[i].response.body.payload.detail = FirstFailure(i).detail
               /\ FirstFailure(i).kind = "network"
                      => /\ log[i].response.status = 500
                         /\ log[i].response.body.payload
                                = [error |-> "Internal Server Error"]

C5_Witness ==
    \E i \in 1..Len(log) :
        /\ log[i].up.latest = Http(404, "Not Found")
        /\ log[i].up.list.kind = "http"
        /\ log[i].up.list.status = 0
        /\ log[i].up.failed = "list"
        /\ log[i].response.status = 502

\* The sum of the elements of a sequence of numbers: of an empty range 0, of
\* one element that element, of a longer range the sums of its two halves.
SumOfSeq(s) ==
    LET sum[lo \in Nat, hi \in Nat] ==
            IF lo > hi THEN 0
            ELSE IF lo = hi THEN s[lo]
            ELSE sum[lo, (lo + hi) \div 2] + sum[((lo + hi) \div 2) + 1, hi]
    IN  sum[1, Len(s)]

\* The download counts of a release's assets, summed.
AssetSum(release) ==
    SumOfSeq([j \in 1..Len(release.assets) |-> release.assets[j].download_count])

\* C6: total_downloads is the sum over all releases of the page of the sum of
\* their assets' download counts; latest_release.download_count is the sum of
\* the latest release's assets' download counts only.
C6_Sums ==
    aggOut # <<>>
        => /\ aggOut[1].total_downloads
                  = SumOfSeq([i \in 1..Len(aggIn.all) |-> AssetSum(aggIn.all[i])])
           /\ aggOut[1].latest_release.download_count = AssetSum(aggIn.latest)

C6_Witness ==
    /\ aggOut # <<>>
    /\ Len(aggIn.all) = 2
    /\ Len(aggIn.all[1].assets) = 0
    /\ Len(aggIn.all[2].assets) = 2
    /\ Len(aggIn.latest.assets) = 1
    /\ aggOut[1].total_downloads = 6
    /\ aggOut[1].latest_release.download_count = 3

\* C7: releases_counted never exceeds 100, however many releases the upstream
\* page holds.
C7_AtMostOnePage ==
    aggOut # <<>> => aggOut[1].releases_counted <= PerPage

Last(s) == s[Len(s)]

\* C8: a response that comes with a cache write is logged while that write is
\* still unsettled and is a 200; however a write settles later (stored,
\* rejected, abandoned), no response already returned changes.
C8_WriteIsDetached ==
    [][/\ (log' # log /\ Last(log').put)
           => /\ Last(log').response.status = 200
              /\ \E put \in pending' \ pending :
                     /\ put.by = Len(log')
                     /\ put.response = Last(log').response
       /\ putlog' # putlog => log' = log]_vars

C8_Witness ==
    \E e \in putlog :
        /\ e.outcome = "rejected"
        /\ log[e.by].put
        /\ log[e.by].response.status = 200

MissingRepositoryMessage ==
    "Missing repository. Provide owner and repo query params or set DEFAULT_REPOSITORY."

\* C9: a GET without both a non-empty owner and a non-empty repo, with no or an
\* empty default repository, gets the 400 'Missing repository' response, and the
\* handler reads no cache, writes no cache and calls no upstream for it.
C9_MissingRepository ==
    \A i \in 1..Len(log) :
        (/\ log[i].request.method = "GET"
         /\ (log[i].request.url.owner \in {Null, ""}
                \/ log[i].request.url.repo \in {Null, ""})
         /\ env.DEFAULT_REPOSITORY \in {Null, ""})
            => /\ log[i].response.status = 400
               /\ log[i].response.body.payload = [error |-> MissingRepositoryMessage]
               /\ ~log[i].cacheRead
               /\ ~log[i].hit
               /\ ~log[i].put
               /\ CallsDuring(i) = NoCalls

C9_Witness ==
    \E i \in 1..Len(log) :
        /\ log[i].request.method = "GET"
        /\ log[i].request.url.owner = ""
        /\ log[i].request.url.repo = "r"
        /\ env.DEFAULT_REPOSITORY = ""
        /\ log[i].response.status = 400

IsHexColor(s) ==
    /\ Len(s) \in {4, 7}
    /\ Char(s, 1) = "#"
    /\ \A i \in 2..Len(s) : Char(s, i) \in HexDigits

\* C10: the resolved colour is the trimmed input when that is a #-prefixed 3- or
\* 6-digit hex string, the keyword table's value when the lower-cased input is
\* one of its keywords, and the default #0d9488 for every other input; so it
\* is always a #-prefixed 3- or 6-digit hex string.
C10_ResolvedColor ==
    colorOut # NotRun
        => LET given == IF colorIn = Null THEN "" ELSE trim(colorIn)
               keyword == toLowerCase(given)
           IN  /\ IsHexColor(given) => colorOut = given
               /\ (~IsHexColor(given) /\ keyword \in DOMAIN BADGE_COLOR_MAP)
                      => colorOut = BADGE_COLOR_MAP[keyword]
               /\ (~IsHexColor(given) /\ keyword \notin DOMAIN BADGE_COLOR_MAP)
                      => colorOut = "#0d9488"
               /\ IsHexColor(colorOut)

\* The repository string request i resolves to: owner/repo from the query when
\* both are given and not empty, the default repository otherwise.
ResolvedRepository(i) ==
    LET url == log[i].request.url
    IN  IF url.owner \notin {Null, ""} /\ url.repo \notin {Null, ""}
        THEN url.owner \o "/" \o url.repo
        ELSE env.DEFAULT_REPOSITORY

\* The number of non-empty slash-separated parts of s: the positions where a
\* part starts.
NonEmptyParts(s) ==
    Cardinality({k \in 1..Len(s) :
                    /\ Char(s, k) # "/"
                    /\ (k = 1 \/ Char(s, k - 1) = "/")})

Malformed(i) ==
    /\ log[i].request.method = "GET"
    /\ ResolvedRepository(i) \notin {Null, ""}
    /\ NonEmptyParts(ResolvedRepository(i)) # 2

\* C11: a GET whose resolved repository string does not have exactly two
\* non-empty slash-separated parts is not turned away before the cache lookup:
\* the cache is read and misses, and the answer is the unclassified failure
\* (500, 'Internal Server Error', not a 400); no upstream call is issued and no
\* cache write is scheduled, pending, stored or settled for it.
C11_MalformedRepository ==
    \A i \in 1..Len(log) :
        Malformed(i)
            => /\ log[i].cacheRead
               /\ ~log[i].hit
               /\ log[i].freshBy = 0
               /\ log[i].response.status = 500
               /\ log[i].response.body.payload = [error |-> "Internal Server Error"]
               /\ CallsDuring(i) = NoCalls
               /\ log[i].up = NoUpstream
               /\ ~log[i].put
               /\ \A put \in pending : put.by # i
               /\ \A entry \in cache : entry.by # i
               /\ \A settled \in putlog : settled.by # i

\* Both of the claim's examples, one after the other under one deployment: the
\* default repository without a slash, and owner a/b with repo c.
C11_Witness ==
    /\ Len(log) = 2
    /\ env.DEFAULT_REPOSITORY = "or"
    /\ log[1].request.url.owner = ""
    /\ log[2].request.url.owner = "a/b"
    /\ log[2].request.url.repo = "c"
    /\ \A i \in 1..2 : Malformed(i) /\ log[i].cacheRead /\ log[i].response.status = 500

==========================================================================
